---- MODULE Spec2Model ----
(***************************************************************************)
(* Model of projekt-gutenberg-de-dl (src/main.go): the URL normaliser      *)
(* getBaseUrl, the index parser getChapters, the chapter extractor         *)
(* parseAdditionalPage with its HTML-to-Markdown walk, and the sequential  *)
(* driver main.                                                            *)
(*                                                                         *)
(* Go strings are modelled as sequences of one-character strings, so that  *)
(* trimming, splitting, joining, concatenation and the per-rune loops of   *)
(* the source are computed and not assumed.                                *)
(***************************************************************************)
EXTENDS Integers, Sequences, FiniteSets, TLC

VARIABLES
    rawurl, urlRes, urlStep,                  \* getBaseUrl: argument, result, position
    node, nodeOut, nodeStep,                  \* process: argument, result, position
    doc, passedHrs, content, perr, w, w0, pStep,
                                              \* parseAdditionalPage: the body's child nodes,
                                              \* locals, writer (now and at the call)
    idoc, chapRes, iStep,                     \* getChapters: document, result, position
    pc, e, b, chapIdx, err, file, writeCalls, exitCode,
                                              \* main: position, Extractor, buffer, loop
                                              \* index, err, output file, exit code
    fetchLog, lastChap, firstErr              \* history: the URLs fetched, the last chapter
                                              \* call, the fetches made at the first error

urlVars  == <<rawurl, urlRes, urlStep>>
nodeVars == <<node, nodeOut, nodeStep>>
pageVars == <<doc, passedHrs, content, perr, w, w0, pStep>>
idxVars  == <<idoc, chapRes, iStep>>
runVars  == <<pc, e, b, chapIdx, err, file, writeCalls, exitCode, fetchLog, lastChap,
              firstErr>>
vars     == <<urlVars, nodeVars, pageVars, idxVars, runVars>>

(***************************************************************************)
(* Bounds of the model.                                                    *)
(***************************************************************************)
MaxPathLen == 5      \* characters of a raw URL's path
MaxTextLen == 4      \* characters of a text node checked on its own
MaxChildren == 4     \* direct children of a chapter body
MaxItems == 3        \* list items of one list of an index page
MaxChapters == 2     \* chapters of a run

(***************************************************************************)
(* Strings.                                                                *)
(***************************************************************************)
Idle == "idle"

\* The errors of src/main.go, and the error values of the libraries it calls.
ErrInvalidURL      == "invalid url"
ErrNoChaptersFound == "no chapters found in index"
ErrParsingPage     == "error parsing page"
ErrBookNotFound    == "book not found"
ErrUrlParse        == "url.Error"     \* the *url.Error url.Parse returns
ErrTransport       == "transport"     \* the error of http.Get
ErrRead            == "read"          \* the error of NewDocumentFromReader
NoErr              == "nil"

RECURSIVE Concat(_)
\* The concatenation of a sequence of strings.
Concat(ss) == IF ss = <<>> THEN <<>> ELSE Head(ss) \o Concat(Tail(ss))

\* strings.Index(s, c) for a one-character c, 1-based; 0 when c is absent.
IndexOf(s, c) ==
    IF \E i \in 1..Len(s) : s[i] = c
    THEN CHOOSE i \in 1..Len(s) : s[i] = c /\ \A j \in 1..(i-1) : s[j] # c
    ELSE 0

HasPrefix(s, p) == Len(s) >= Len(p) /\ SubSeq(s, 1, Len(p)) = p

\* strings.Trim(s, c) for a one-character cutset.
Trim(s, c) ==
    IF \A i \in 1..Len(s) : s[i] = c THEN <<>>
    ELSE LET lo == CHOOSE i \in 1..Len(s) : s[i] # c /\ \A j \in 1..(i-1) : s[j] = c
             hi == CHOOSE i \in 1..Len(s) : s[i] # c /\ \A j \in (i+1)..Len(s) : s[j] = c
         IN SubSeq(s, lo, hi)

RECURSIVE Split(_, _)
\* strings.Split(s, sep) for a one-character sep: never empty, Split("") = [""].
Split(s, sep) ==
    LET i == IndexOf(s, sep)
    IN IF i = 0 THEN <<s>>
       ELSE <<SubSeq(s, 1, i - 1)>> \o Split(SubSeq(s, i + 1, Len(s)), sep)

RECURSIVE Join(_, _)
\* strings.Join(elems, sep).
Join(elems, sep) ==
    IF elems = <<>> THEN <<>>
    ELSE IF Len(elems) = 1 THEN elems[1]
    ELSE elems[1] \o sep \o Join(Tail(elems), sep)

\* strings.ReplaceAll(s, c, "") for a one-character c.
RemoveAll(s, c) == SelectSeq(s, LAMBDA x : x # c)

\* The character U+0060, which cannot stand in a string of this module.
BACKTICK == "U+0060"

\* The bytes 0x00 to 0xff as characters, ByteChars[b + 1] for the byte b: an ASCII
\* byte is its character (a control byte without an escape is named by its code
\* point), a byte from 0x80 on is named by its value.
ByteChars == <<
    "U+0000", "U+0001", "U+0002", "U+0003", "U+0004", "U+0005", "U+0006", "U+0007",
    "U+0008", "\t", "\n", "U+000B", "U+000C", "\r", "U+000E", "U+000F",
    "U+0010", "U+0011", "U+0012", "U+0013", "U+0014", "U+0015", "U+0016", "U+0017",
    "U+0018", "U+0019", "U+001A", "U+001B", "U+001C", "U+001D", "U+001E", "U+001F",
    " ", "!", "\"", "#", "$", "%", "&", "'",
    "(", ")", "*", "+", ",", "-", ".", "/",
    "0", "1", "2", "3", "4", "5", "6", "7",
    "8", "9", ":", ";", "<", "=", ">", "?",
    "@", "A", "B", "C", "D", "E", "F", "G",
    "H", "I", "J", "K", "L", "M", "N", "O",
    "P", "Q", "R", "S", "T", "U", "V", "W",
    "X", "Y", "Z", "[", "\\", "]", "^", "_",
    BACKTICK, "a", "b", "c", "d", "e", "f", "g",
    "h", "i", "j", "k", "l", "m", "n", "o",
    "p", "q", "r", "s", "t", "u", "v", "w",
    "x", "y", "z", "{", "|", "}", "~", "U+007F",
    "0x80", "0x81", "0x82", "0x83", "0x84", "0x85", "0x86", "0x87",
    "0x88", "0x89", "0x8A", "0x8B", "0x8C", "0x8D", "0x8E", "0x8F",
    "0x90", "0x91", "0x92", "0x93", "0x94", "0x95", "0x96", "0x97",
    "0x98", "0x99", "0x9A", "0x9B", "0x9C", "0x9D", "0x9E", "0x9F",
    "0xA0", "0xA1", "0xA2", "0xA3", "0xA4", "0xA5", "0xA6", "0xA7",
    "0xA8", "0xA9", "0xAA", "0xAB", "0xAC", "0xAD", "0xAE", "0xAF",
    "0xB0", "0xB1", "0xB2", "0xB3", "0xB4", "0xB5", "0xB6", "0xB7",
    "0xB8", "0xB9", "0xBA", "0xBB", "0xBC", "0xBD", "0xBE", "0xBF",
    "0xC0", "0xC1", "0xC2", "0xC3", "0xC4", "0xC5", "0xC6", "0xC7",
    "0xC8", "0xC9", "0xCA", "0xCB", "0xCC", "0xCD", "0xCE", "0xCF",
    "0xD0", "0xD1", "0xD2", "0xD3", "0xD4", "0xD5", "0xD6", "0xD7",
    "0xD8", "0xD9", "0xDA", "0xDB", "0xDC", "0xDD", "0xDE", "0xDF",
    "0xE0", "0xE1", "0xE2", "0xE3", "0xE4", "0xE5", "0xE6", "0xE7",
    "0xE8", "0xE9", "0xEA", "0xEB", "0xEC", "0xED", "0xEE", "0xEF",
    "0xF0", "0xF1", "0xF2", "0xF3", "0xF4", "0xF5", "0xF6", "0xF7",
    "0xF8", "0xF9", "0xFA", "0xFB", "0xFC", "0xFD", "0xFE", "0xFF" >>

\* The byte a character is, for the characters that are one byte.
byteOf == [c \in {ByteChars[k] : k \in 1..256} |-> (CHOOSE k \in 1..256 : ByteChars[k] = c) - 1]

\* 'a' <= c && c <= 'z' || 'A' <= c && c <= 'Z'
IsLetter(c) == c \in DOMAIN byteOf /\ byteOf[c] \in (97..122) \cup (65..90)
\* '0' <= c && c <= '9'
IsDigit(c) == c \in DOMAIN byteOf /\ byteOf[c] \in 48..57
\* b < ' ' || b == 0x7f of stringContainsCTLByte.
IsCTL(c) == c \in DOMAIN byteOf /\ (byteOf[c] < 32 \/ byteOf[c] = 127)

\* strings.ToLower on a string whose letters are ASCII, as a scheme's are: 'A' to
\* 'Z' become 'a' to 'z'.
ToLower(s) ==
    [i \in 1..Len(s) |->
        IF s[i] \in DOMAIN byteOf /\ byteOf[s[i]] \in 65..90
        THEN ByteChars[byteOf[s[i]] + 32 + 1] ELSE s[i]]

\* strings.LastIndex(s, c) for a one-character c, 1-based; 0 when c is absent.
LastIndexOf(s, c) ==
    IF \E i \in 1..Len(s) : s[i] = c
    THEN CHOOSE i \in 1..Len(s) : s[i] = c /\ \A j \in (i+1)..Len(s) : s[j] # c
    ELSE 0

\* The result of a call: the returned value and the returned error.
Result(val, er) == [val |-> val, err |-> er]

(***************************************************************************)
(* net/url.Parse (called at src/main.go:67), after the standard library's  *)
(* url.go: Parse, parse, getScheme, parseAuthority, parseHost, setPath,    *)
(* setFragment, unescape and shouldEscape.  A URL is a sequence of bytes;  *)
(* of the parsed URL the model keeps Scheme, Host, Path, RawQuery and      *)
(* Fragment.  Every error of url.Parse is the one value ErrUrlParse.       *)
(***************************************************************************)
RECURSIVE getSchemeAt(_, _)
\* getScheme of net/url, its loop at byte i: [ok, scheme, rest].
getSchemeAt(raw, i) ==
    LET none == [ok |-> TRUE, scheme |-> <<>>, rest |-> raw]
    IN IF i > Len(raw) THEN none
       ELSE IF IsLetter(raw[i]) THEN getSchemeAt(raw, i + 1)
       ELSE IF IsDigit(raw[i]) \/ raw[i] \in {"+", "-", "."}
       THEN IF i = 1 THEN none ELSE getSchemeAt(raw, i + 1)
       ELSE IF raw[i] = ":"
       THEN IF i = 1 THEN [ok |-> FALSE, scheme |-> <<>>, rest |-> <<>>]
            ELSE [ok |-> TRUE, scheme |-> SubSeq(raw, 1, i - 1),
                  rest |-> SubSeq(raw, i + 1, Len(raw))]
       ELSE none

\* unhex of net/url, defined on the bytes for which ishex holds (its DOMAIN).
unhex ==
    ("0" :> 0) @@ ("1" :> 1) @@ ("2" :> 2) @@ ("3" :> 3) @@ ("4" :> 4) @@ ("5" :> 5) @@
    ("6" :> 6) @@ ("7" :> 7) @@ ("8" :> 8) @@ ("9" :> 9) @@ ("a" :> 10) @@ ("b" :> 11)
    @@ ("c" :> 12) @@ ("d" :> 13) @@ ("e" :> 14) @@ ("f" :> 15) @@ ("A" :> 10) @@ ("B"
    :> 11) @@ ("C" :> 12) @@ ("D" :> 13) @@ ("E" :> 14) @@ ("F" :> 15)

\* shouldEscape(c, mode) of net/url.
shouldEscape(c, mode) ==
    IF IsLetter(c) \/ IsDigit(c) THEN FALSE
    ELSE IF mode \in {"encodeHost", "encodeZone"}
            /\ c \in {"!", "$", "&", "'", "(", ")", "*", "+", ",", ";", "=", ":", "[", "]",
                      "<", ">", "\""}
    THEN FALSE
    ELSE IF c \in {"-", "_", ".", "~"} THEN FALSE
    ELSE IF c \in {"$", "&", "+", ",", "/", ":", ";", "=", "?", "@"}
            /\ mode \in {"encodePath", "encodePathSegment", "encodeUserPassword",
                         "encodeQueryComponent", "encodeFragment"}
    THEN CASE mode = "encodePath"           -> c = "?"
           [] mode = "encodePathSegment"    -> c \in {"/", ";", ",", "?"}
           [] mode = "encodeUserPassword"   -> c \in {"@", "/", "?", ":"}
           [] mode = "encodeQueryComponent" -> TRUE
           [] mode = "encodeFragment"       -> FALSE
    ELSE IF mode = "encodeFragment" /\ c \in {"!", "(", ")", "*"} THEN FALSE
    ELSE TRUE

\* The byte a well-formed escape %XY at s[i] stands for.
escapedByte(s, i) == ByteChars[16 * unhex[s[i + 1]] + unhex[s[i + 2]] + 1]

RECURSIVE unescapeAt(_, _, _, _)
\* unescape of net/url at byte i, `out` unescaped so far: an escape must be two
\* hex digits; in a host it must stand for a byte from 0x80 on or be %25, in a
\* zone for a byte a host may hold, a space or %; an ASCII byte of a host or a
\* zone must be one a host may hold.
unescapeAt(s, i, mode, out) ==
    IF i > Len(s) THEN Result(out, NoErr)
    ELSE IF s[i] = "%"
    THEN IF i + 2 > Len(s) \/ s[i + 1] \notin DOMAIN unhex \/ s[i + 2] \notin DOMAIN unhex
         THEN Result(<<>>, ErrUrlParse)
         ELSE IF mode = "encodeHost" /\ unhex[s[i + 1]] < 8
                 /\ SubSeq(s, i, i + 2) # <<"%", "2", "5">>
         THEN Result(<<>>, ErrUrlParse)
         ELSE IF mode = "encodeZone" /\ SubSeq(s, i, i + 2) # <<"%", "2", "5">>
                 /\ escapedByte(s, i) # " " /\ shouldEscape(escapedByte(s, i), "encodeHost")
         THEN Result(<<>>, ErrUrlParse)
         ELSE unescapeAt(s, i + 3, mode, Append(out, escapedByte(s, i)))
    ELSE IF s[i] = "+" /\ mode = "encodeQueryComponent"
    THEN unescapeAt(s, i + 1, mode, Append(out, " "))
    ELSE IF mode \in {"encodeHost", "encodeZone"}
            /\ s[i] \in DOMAIN byteOf /\ byteOf[s[i]] < 128 /\ shouldEscape(s[i], "encodeHost")
    THEN Result(<<>>, ErrUrlParse)
    ELSE unescapeAt(s, i + 1, mode, Append(out, s[i]))

unescape(s, mode) == unescapeAt(s, 1, mode, <<>>)

\* validOptionalPort of net/url: empty, or a colon and digits.
validOptionalPort(port) ==
    port = <<>> \/ (port[1] = ":" /\ \A i \in 2..Len(port) : IsDigit(port[i]))

\* validUserinfo of net/url.
validUserinfo(s) ==
    \A i \in 1..Len(s) :
        \/ IsLetter(s[i]) \/ IsDigit(s[i])
        \/ s[i] \in {"-", ".", "_", ":", "~", "!", "$", "&", "'", "(", ")", "*", "+", ",",
                     ";", "=", "%", "@"}

\* The first index at which %25 stands in host[1..last], 0 when it does not.
zoneIndex(host, last) ==
    IF \E z \in 1..(last - 2) : SubSeq(host, z, z + 2) = <<"%", "2", "5">>
    THEN CHOOSE z \in 1..(last - 2) :
             /\ SubSeq(host, z, z + 2) = <<"%", "2", "5">>
             /\ \A y \in 1..(z - 1) : SubSeq(host, y, y + 2) # <<"%", "2", "5">>
    ELSE 0

\* parseHost of net/url on an IP literal whose last "]" is at rb, with its zone at
\* z (0 for none).
parseIPLiteral(host, rb, z) ==
    IF rb = 0 THEN Result(<<>>, ErrUrlParse)                  \* missing ']' in host
    ELSE IF ~validOptionalPort(SubSeq(host, rb + 1, Len(host)))
    THEN Result(<<>>, ErrUrlParse)                            \* invalid port
    ELSE IF z = 0 THEN unescape(host, "encodeHost")
    ELSE IF \/ unescape(SubSeq(host, 1, z - 1), "encodeHost").err # NoErr
            \/ unescape(SubSeq(host, z, rb - 1), "encodeZone").err # NoErr
            \/ unescape(SubSeq(host, rb, Len(host)), "encodeHost").err # NoErr
    THEN Result(<<>>, ErrUrlParse)
    ELSE Result(unescape(SubSeq(host, 1, z - 1), "encodeHost").val
                \o unescape(SubSeq(host, z, rb - 1), "encodeZone").val
                \o unescape(SubSeq(host, rb, Len(host)), "encodeHost").val, NoErr)

\* parseHost of net/url.
parseHost(host) ==
    IF HasPrefix(host, <<"[">>)
    THEN parseIPLiteral(host, LastIndexOf(host, "]"),
                        zoneIndex(host, LastIndexOf(host, "]") - 1))
    ELSE IF LastIndexOf(host, ":") # 0
            /\ ~validOptionalPort(SubSeq(host, LastIndexOf(host, ":"), Len(host)))
    THEN Result(<<>>, ErrUrlParse)                            \* invalid port
    ELSE unescape(host, "encodeHost")

BeforeFirst(s, c) == IF IndexOf(s, c) = 0 THEN s ELSE SubSeq(s, 1, IndexOf(s, c) - 1)
AfterFirst(s, c)  == IF IndexOf(s, c) = 0 THEN <<>> ELSE SubSeq(s, IndexOf(s, c) + 1, Len(s))
FromFirst(s, c)   == IF IndexOf(s, c) = 0 THEN <<>> ELSE SubSeq(s, IndexOf(s, c), Len(s))

\* parseAuthority of net/url: the host behind the last "@", once the user info
\* before it is valid and its name and password unescape.
parseAuthority(authority) ==
    IF LastIndexOf(authority, "@") = 0 THEN parseHost(authority)
    ELSE IF parseHost(SubSeq(authority, LastIndexOf(authority, "@") + 1,
                             Len(authority))).err # NoErr
    THEN Result(<<>>, ErrUrlParse)
    ELSE IF ~validUserinfo(SubSeq(authority, 1, LastIndexOf(authority, "@") - 1))
    THEN Result(<<>>, ErrUrlParse)                            \* invalid userinfo
    ELSE IF \/ unescape(BeforeFirst(SubSeq(authority, 1, LastIndexOf(authority, "@") - 1),
                                    ":"), "encodeUserPassword").err # NoErr
            \/ unescape(AfterFirst(SubSeq(authority, 1, LastIndexOf(authority, "@") - 1),
                                   ":"), "encodeUserPassword").err # NoErr
    THEN Result(<<>>, ErrUrlParse)
    ELSE parseHost(SubSeq(authority, LastIndexOf(authority, "@") + 1, Len(authority)))

FailedUrl == [ok |-> FALSE, Scheme |-> <<>>, Host |-> <<>>, Path |-> <<>>,
              RawQuery |-> <<>>, Fragment |-> <<>>]

ParsedUrl(sch, host, path, qry, frag) ==
    [ok |-> TRUE, Scheme |-> sch, Host |-> host, Path |-> path, RawQuery |-> qry,
     Fragment |-> frag]

\* The end of parse: url.setPath(rest) behind parseAuthority, `host` being what
\* parseAuthority returned (the empty host without error when there is no
\* authority) and `path` the unescaped rest.
setPath(sch, host, path, qry) ==
    IF host.err # NoErr \/ path.err # NoErr THEN FailedUrl
    ELSE ParsedUrl(sch, host.val, path.val, qry, <<>>)

\* parse of net/url behind the scheme and the query: the authority and the path.
parseRest(sch, rest, qry) ==
    IF ~HasPrefix(rest, <<"/">>) /\ sch # <<>>
    THEN ParsedUrl(sch, <<>>, <<>>, qry, <<>>)      \* an opaque URL: no host, no path
    ELSE IF ~HasPrefix(rest, <<"/">>) /\ IndexOf(BeforeFirst(rest, "/"), ":") # 0
    THEN FailedUrl                      \* first path segment cannot contain colon
    ELSE IF (sch # <<>> \/ ~HasPrefix(rest, <<"/", "/", "/">>))
            /\ HasPrefix(rest, <<"/", "/">>)
    THEN setPath(sch, parseAuthority(BeforeFirst(SubSeq(rest, 3, Len(rest)), "/")),
                 unescape(FromFirst(SubSeq(rest, 3, Len(rest)), "/"), "encodePath"), qry)
    ELSE setPath(sch, Result(<<>>, NoErr), unescape(rest, "encodePath"), qry)

\* parse of net/url behind getScheme: the scheme in lower case, the query cut off.
parseScheme(gs) ==
    IF ~gs.ok THEN FailedUrl            \* missing protocol scheme
    ELSE parseRest(ToLower(gs.scheme), BeforeFirst(gs.rest, "?"),
                   AfterFirst(gs.rest, "?"))

\* parse of net/url on the URL without its fragment.
parse(u) ==
    IF \E i \in 1..Len(u) : IsCTL(u[i]) THEN FailedUrl   \* invalid control character
    ELSE IF u = <<"*">> THEN ParsedUrl(<<>>, <<>>, <<"*">>, <<>>, <<>>)
    ELSE parseScheme(getSchemeAt(u, 1))

\* url.setFragment(frag) on what parse returned, `f` being the unescaped fragment.
setFragment(url, f) ==
    IF ~url.ok \/ f.err # NoErr THEN FailedUrl
    ELSE [url EXCEPT !.Fragment = f.val]

\* url.Parse(rawurl): the parsed URL, or ok = FALSE for a parse error.
UrlParse(raw) ==
    setFragment(parse(BeforeFirst(raw, "#")), unescape(AfterFirst(raw, "#"), "encodeFragment"))

(***************************************************************************)
(* getBaseUrl (src/main.go:66-83).                                         *)
(***************************************************************************)
SchemeHttp  == <<"h","t","t","p">>
SchemeHttps == <<"h","t","t","p","s">>
HostBare    == <<"p","r","o","j","e","k","t","-","g","u","t","e","n","b","e","r","g",
                 ".","o","r","g">>
HostWww     == <<"w","w","w",".">> \o HostBare
BasePrefix  == <<":","/","/">> \o HostBare \o <<"/">>

\* baseOfUrl without the test of the host (src/main.go:74-76).
baseOfUrlAnyHost(url, spPath) ==
    IF ~url.ok THEN Result(<<>>, ErrUrlParse)
    ELSE IF ~(url.Scheme = SchemeHttp \/ url.Scheme = SchemeHttps)
    THEN Result(<<>>, ErrInvalidURL)
    ELSE IF Len(spPath) < 2 THEN Result(<<>>, ErrInvalidURL)
    ELSE Result(url.Scheme \o BasePrefix \o Join(SubSeq(spPath, 1, 2), <<"/">>), NoErr)

\* getBaseUrl behind url.Parse (src/main.go:68-82).
baseOfUrl(url, spPath) ==
    IF ~url.ok THEN Result(<<>>, ErrUrlParse)
    ELSE IF ~(url.Scheme = SchemeHttp \/ url.Scheme = SchemeHttps)
    THEN Result(<<>>, ErrInvalidURL)
    ELSE IF ~(url.Host = HostBare \/ url.Host = HostWww)
    THEN Result(<<>>, ErrInvalidURL)
    ELSE IF Len(spPath) < 2 THEN Result(<<>>, ErrInvalidURL)
    ELSE Result(url.Scheme \o BasePrefix \o Join(SubSeq(spPath, 1, 2), <<"/">>), NoErr)

\* strings.Split(strings.Trim(url.Path, "/"), "/") (src/main.go:77).
splitPath(url) == Split(Trim(url.Path, "/"), "/")

\* baseOfUrl given the URL url.Parse returned.
baseOfParsed(url) == baseOfUrl(url, splitPath(url))

getBaseUrl(raw) == baseOfParsed(UrlParse(raw))

(***************************************************************************)
(* The raw URLs getBaseUrl is applied to.                                  *)
(***************************************************************************)
PathChars == {"/", "a", "b"}

RECURSIVE StringsUpTo(_, _)
\* The strings over alphabet A of length at most n.
StringsUpTo(A, n) ==
    IF n = 0 THEN {<<>>}
    ELSE LET shorter == StringsUpTo(A, n - 1)
         IN shorter \cup {Append(s, c) : s \in shorter, c \in A}

\* After a host, a path is empty or starts with a slash.
RawPaths == {p \in StringsUpTo(PathChars, MaxPathLen) : p = <<>> \/ p[1] = "/"}

RawSchemes == {SchemeHttp \o <<":">>, SchemeHttps \o <<":">>, <<"H","T","T","P",":">>,
               <<"f","t","p",":">>, <<>>, <<":">>}
RawHosts == {HostBare, HostWww, <<"w","w","w","2",".">> \o HostBare,
             <<"g","u","t","e","n","b","e","r","g",".","o","r","g">>}
RawSuffixes == {<<>>, <<"?","q">>, <<"#","f">>, <<"\n">>, <<"/","?","q","#","f">>}

\* Besides the URLs built from the sets above: authorities with user info, a
\* port, an IP literal or a byte no host may hold, before paths and fragments with
\* escapes; and the URL "*".
RawUrls ==
    {sch \o <<"/","/">> \o h \o p \o x :
        sch \in RawSchemes, h \in RawHosts, p \in RawPaths, x \in RawSuffixes}
    \cup {SchemeHttp \o <<":">> \o h \o p : h \in RawHosts, p \in RawPaths}
    \cup {sch \o <<"/","/">> \o h \o p :
            sch \in {SchemeHttp \o <<":">>, <<"F","t","P",":">>},
            h \in {HostBare, <<"u", "@">> \o HostBare, <<"u", ":", "p", "@">> \o HostWww,
                   <<"u", "/", "@">> \o HostBare, <<"%", "z", "@">> \o HostBare,
                   HostBare \o <<":", "8", "0">>, HostBare \o <<":", "x">>,
                   <<" ">> \o HostBare, <<"%", "4", "1">> \o HostBare,
                   <<"[", ":", ":", "1", "]">>, <<"[", ":", ":", "1">>,
                   <<"[", ":", ":", "1", "%", "2", "5", "e", "]", ":", "8">>},
            p \in {<<"/", "a", "/", "b">>, <<"/", "a", "%", "2", "F", "b">>,
                   <<"/", "a", "%", "2", "f", "b", "/", "c">>,
                   <<"/", "a", "/", "%", "z", "z">>, <<"/", "a", "/", "b", "%">>,
                   <<"/", "a", "/", "b", "%", "3", "F", "c">>,
                   <<"/", "a", "/", "%", "E", "4">>,
                   <<"/", "a", "/", "b", "#", "%", "z", "z">>,
                   <<"/", "a", "/", "b", "#", "%", "4", "1">>,
                   <<"/", "a", "/", "b", "?">>}}
    \cup {<<"*">>}

NoResult == Result(<<>>, Idle)

IdleUrl  == rawurl = <<>> /\ urlRes = NoResult /\ urlStep = Idle
IdleNode == node = <<>> /\ nodeOut = <<>> /\ nodeStep = Idle
IdlePage == /\ doc = <<>> /\ passedHrs = 0 /\ content = <<>> /\ perr = NoErr
            /\ w = <<>> /\ w0 = <<>> /\ pStep = Idle
IdleIdx  == idoc = <<>> /\ chapRes = NoResult /\ iStep = Idle
IdleRun  == /\ pc = Idle /\ e = <<>> /\ b = <<>> /\ chapIdx = 0 /\ err = NoErr
            /\ file = <<>> /\ writeCalls = 0 /\ exitCode = -1 /\ fetchLog = <<>>
            /\ lastChap = <<>> /\ firstErr = -1

InitUrl ==
    /\ rawurl \in RawUrls /\ urlRes = NoResult /\ urlStep = "start"
    /\ IdleNode /\ IdlePage /\ IdleIdx /\ IdleRun

\* A call getBaseUrl(rawurl).
CallGetBaseUrl ==
    /\ urlStep = "start"
    /\ urlRes' = getBaseUrl(rawurl)
    /\ urlStep' = "called"
    /\ UNCHANGED <<rawurl, nodeVars, pageVars, idxVars, runVars>>

\* A second call, on the base URL the first call returned.
CallGetBaseUrlAgain ==
    /\ urlStep = "called"
    /\ urlRes.err = NoErr
    /\ rawurl' = urlRes.val
    /\ urlRes' = getBaseUrl(urlRes.val)
    /\ urlStep' = "again"
    /\ UNCHANGED <<nodeVars, pageVars, idxVars, runVars>>

NextUrl == CallGetBaseUrl \/ CallGetBaseUrlAgain

SpecUrl == InitUrl /\ [][NextUrl]_vars

(***************************************************************************)
(* HTML nodes (golang.org/x/net/html.Node): Type, the element's tag (Data  *)
(* and DataAtom of an element), the text (Data of a text node), Attr in    *)
(* source order and the children in document order.                        *)
(***************************************************************************)
TextNode(d)   == [Type |-> "text", Tag |-> "", Data |-> d, Attr |-> <<>>, Kids |-> <<>>]
Elem(t, a, k) == [Type |-> "element", Tag |-> t, Data |-> <<>>, Attr |-> a, Kids |-> k]
CommentNode   == [Type |-> "comment", Tag |-> "", Data |-> <<"c">>, Attr |-> <<>>, Kids |-> <<>>]
Attribute(k, v) == [Key |-> k, Val |-> v]

\* Two characters of the pages named by their code points.
NBSP == "U+00A0"
UUml == "U+00FC"

ClassSpaced    == <<"s","p","a","c","e","d">>
ClassCenterbig == <<"c","e","n","t","e","r","b","i","g">>

\* hasClass (src/main.go:211-224): the first class attribute decides.
hasClass(n, class) ==
    LET at == {i \in 1..Len(n.Attr) : n.Attr[i].Key = "class"}
    IN IF at = {} THEN FALSE
       ELSE LET first == CHOOSE i \in at : \A j \in at : i <= j
                classes == Split(n.Attr[first].Val, " ")
            IN \E k \in 1..Len(classes) : classes[k] = class

RECURSIVE collapseSpaces(_, _, _, _)
\* The loop of src/main.go:236-246 from rune i on, with its two locals.
collapseSpaces(ret, i, prevWasSpace, newRet) ==
    IF i > Len(ret) THEN newRet
    ELSE IF ret[i] = " "
    THEN IF prevWasSpace THEN collapseSpaces(ret, i + 1, TRUE, newRet)
         ELSE collapseSpaces(ret, i + 1, TRUE, Append(newRet, ret[i]))
    ELSE collapseSpaces(ret, i + 1, FALSE, Append(newRet, ret[i]))

\* processText without the strings.ReplaceAll of line 231.
processTextKeepingNewlines(data) == collapseSpaces(data, 1, FALSE, <<>>)

\* The text node's case (src/main.go:228-247).
processText(data) == collapseSpaces(RemoveAll(data, "\n"), 1, FALSE, <<>>)

RECURSIVE spacedLoop(_, _, _)
\* The loop of src/main.go:292-297 from rune i on.
spacedLoop(runes, i, newRet) ==
    IF i > Len(runes) THEN newRet
    ELSE spacedLoop(runes, i + 1,
                    IF i < Len(runes) THEN newRet \o <<runes[i], " ">>
                    ELSE Append(newRet, runes[i]))

\* spacedEffect with the test of line 294 off by one (i < nRunes).
spacedEffectTrailing(ret) == Concat([i \in 1..Len(ret) |-> <<ret[i], " ">>])

\* The "spaced" effect (src/main.go:287-299).
spacedEffect(ret) == spacedLoop(ret, 1, <<>>)

Hashes(k) == [i \in 1..k |-> "#"]

RECURSIVE process(_), processChildren(_)

\* The switch on n.DataAtom (src/main.go:250-285), given the converted children.
tagTransform(n, children) ==
    CASE n.Tag = "br"   -> <<"\n", "\n">>
      [] n.Tag = "h1"   -> Hashes(1) \o <<" ">> \o children \o <<"\n">>
      [] n.Tag = "h2"   -> Hashes(2) \o <<" ">> \o children \o <<"\n">>
      [] n.Tag = "h3"   -> Hashes(3) \o <<" ">> \o children \o <<"\n">>
      [] n.Tag = "h4"   -> Hashes(4) \o <<" ">> \o children \o <<"\n">>
      [] n.Tag = "h5"   -> Hashes(5) \o <<" ">> \o children \o <<"\n">>
      [] n.Tag = "h6"   -> Hashes(6) \o <<" ">> \o children \o <<"\n">>
      [] n.Tag = "p"    -> IF hasClass(n, ClassCenterbig)
                           THEN Hashes(4) \o <<" ">> \o children \o <<"\n", "\n">>
                           ELSE children \o <<"\n", "\n">>
      [] n.Tag = "div"  -> children
      [] n.Tag = "tt"   -> <<BACKTICK>> \o children \o <<BACKTICK>>
      [] n.Tag = "i"    -> <<"_">> \o children \o <<"_">>
      [] n.Tag = "a"    -> children
      [] n.Tag = "span" -> children
      [] n.Tag = "img"  -> <<>>
      [] OTHER          -> <<>>    \* a warning on the console, nothing returned

\* The tags whose case of the switch calls processChildren.
WalksChildren(n) ==
    n.Tag \in {"h1","h2","h3","h4","h5","h6","p","div","tt","i","a","span"}

\* processChildren (src/main.go:202-208).
processChildren(n) ==
    IF n.Kids = <<>> THEN <<>>
    ELSE process(n.Kids[1]) \o processChildren([n EXCEPT !.Kids = Tail(n.Kids)])

\* The element's case (src/main.go:248-299).
processElement(n) ==
    LET ret == tagTransform(n, IF WalksChildren(n) THEN processChildren(n) ELSE <<>>)
    IN IF hasClass(n, ClassSpaced) THEN spacedEffect(ret) ELSE ret

\* process (src/main.go:201-305).
process(n) ==
    IF n.Type = "text" THEN processText(n.Data)
    ELSE IF n.Type = "element" THEN processElement(n)
    ELSE <<>>                      \* a warning on the console, nothing returned

(***************************************************************************)
(* The nodes process is applied to on its own.                             *)
(***************************************************************************)
TextChars == {"a", " ", "\n"}
TextABC   == <<"a", " ", " ", "b", " ", " ", " ", "c">>

ClassAttrs ==
    { <<>>,
      <<Attribute("class", ClassSpaced)>>,
      <<Attribute("class", ClassCenterbig)>>,
      <<Attribute("class", ClassCenterbig \o <<" ">> \o ClassSpaced)>>,
      <<Attribute("class", <<"u", "n">> \o ClassSpaced)>>,
      <<Attribute("class", <<>>)>>,
      <<Attribute("id", ClassSpaced)>>,
      <<Attribute("id", <<"x">>), Attribute("class", ClassSpaced \o <<" ", "x">>)>> }

ElemTags == {"br", "h1", "h2", "h3", "h4", "h5", "h6", "p", "div", "tt", "i", "a",
             "span", "img", "b", "hr"}

KidLists ==
    { <<>>,
      <<TextNode(<<"a", "b">>)>>,
      <<TextNode(<<"a", " ", " ", "b", "\n">>)>>,
      <<TextNode(<<"a">>), Elem("i", <<>>, <<TextNode(<<"b">>)>>)>>,
      <<Elem("br", <<>>, <<>>), TextNode(<<" ">>)>>,
      <<Elem("span", <<Attribute("class", ClassSpaced)>>, <<TextNode(<<"a", "b">>)>>)>>,
      <<CommentNode, TextNode(<<"b">>)>> }

ProcessNodes ==
    {TextNode(t) : t \in StringsUpTo(TextChars, MaxTextLen) \cup {TextABC, <<"a", "b">>}} \cup {CommentNode}
    \cup {Elem(t, a, k) : t \in ElemTags, a \in ClassAttrs, k \in KidLists}

InitNode ==
    /\ node \in ProcessNodes /\ nodeOut = <<>> /\ nodeStep = "start"
    /\ IdleUrl /\ IdlePage /\ IdleIdx /\ IdleRun

\* A call process(node).
CallProcess ==
    /\ nodeStep = "start"
    /\ nodeOut' = process(node)
    /\ nodeStep' = "done"
    /\ UNCHANGED <<node, urlVars, pageVars, idxVars, runVars>>

\* The converted text, as a text node, converted again.
CallProcessAgain ==
    /\ nodeStep = "done"
    /\ node.Type = "text"
    /\ node' = TextNode(nodeOut)
    /\ nodeOut' = process(TextNode(nodeOut))
    /\ nodeStep' = "again"
    /\ UNCHANGED <<urlVars, pageVars, idxVars, runVars>>

NextNode == CallProcess \/ CallProcessAgain

SpecNode == InitNode /\ [][NextNode]_vars

(***************************************************************************)
(* parseAdditionalPage (src/main.go:170-310).                              *)
(***************************************************************************)
AttrSize1 == Attribute("size", <<"1">>)
AttrGray  == Attribute("color", <<"#","8","0","8","0","8","0">>)
LabelBack == <<"<", "<", NBSP, "z", "u", "r", UUml, "c", "k">>
LabelNext == <<"w", "e", "i", "t", "e", "r", NBSP, ">", ">">>

\* An attribute selector [key="val"] of the selection's Is.
hasAttr(n, a) == \E i \in 1..Len(n.Attr) : n.Attr[i] = a

\* s.Is("hr[size=\"1\"][color=\"#808080\"]") (src/main.go:176).
isMarker(n) ==
    n.Type = "element" /\ n.Tag = "hr" /\ hasAttr(n, AttrSize1) /\ hasAttr(n, AttrGray)

RECURSIVE nodeText(_)
\* s.Text(): the data of the text nodes below n, in document order.
nodeText(n) ==
    IF n.Type = "text" THEN n.Data
    ELSE IF n.Kids = <<>> THEN <<>>
    ELSE nodeText(n.Kids[1]) \o nodeText([n EXCEPT !.Kids = Tail(n.Kids)])

\* isNavLink with the second label forgotten.
isNavLinkBackOnly(n) == n.Type = "element" /\ n.Tag = "a" /\ nodeText(n) = LabelBack

\* s.Is("a") && (s.Text() == "<< zurück" || s.Text() == "weiter >>")
\* (src/main.go:179).
isNavLink(n) ==
    n.Type = "element" /\ n.Tag = "a"
    /\ (nodeText(n) = LabelBack \/ nodeText(n) = LabelNext)

\* Children(): the element children of the body.
Children(kids) == SelectSeq(kids, LAMBDA n : n.Type = "element")

\* The switch of lines 183-193 with "case 1" widened to every count from 1 on.
regionOfFromFirst(hrs) ==
    IF hrs = 0 THEN [keep |-> FALSE, err |-> NoErr] ELSE [keep |-> TRUE, err |-> NoErr]

\* The switch on passedHrs (src/main.go:183-193): whether the child is kept, and
\* the error it sets.
regionOf(hrs) ==
    CASE hrs = 0 -> [keep |-> FALSE, err |-> NoErr]
      [] hrs = 1 -> [keep |-> TRUE,  err |-> NoErr]
      [] hrs = 2 -> [keep |-> FALSE, err |-> NoErr]
      [] OTHER   -> [keep |-> FALSE, err |-> ErrParsingPage]

RECURSIVE filterChildren(_, _, _, _, _)
\* FilterFunction over the children from the i-th on (src/main.go:175-194), with the
\* closure's captured passedHrs and err and the nodes kept so far.
filterChildren(ch, i, hrs, er, kept) ==
    IF i > Len(ch) THEN [passedHrs |-> hrs, err |-> er, content |-> kept]
    ELSE IF isMarker(ch[i]) THEN filterChildren(ch, i + 1, hrs + 1, er, kept)
    ELSE IF isNavLink(ch[i]) THEN filterChildren(ch, i + 1, hrs, er, kept)
    ELSE LET r == regionOf(hrs)
         IN filterChildren(ch, i + 1, hrs,
                           IF r.err # NoErr THEN r.err ELSE er,
                           IF r.keep THEN Append(kept, ch[i]) ELSE kept)

\* The end of parseAdditionalPage (src/main.go:195-309), given what the filter left:
\* the locals at the return, the error returned and the writer afterwards.
convertContent(f, buf) ==
    [passedHrs |-> f.passedHrs, content |-> f.content, err |-> f.err,
     w |-> IF f.err # NoErr THEN buf
           ELSE buf \o Concat([i \in 1..Len(f.content) |-> process(f.content[i])])]

\* parseAdditionalPage on a document whose body has the child nodes `kids`, writing
\* to a writer that holds `buf`.
parseAdditionalPage(kids, buf) ==
    convertContent(filterChildren(Children(kids), 1, 0, NoErr, <<>>), buf)

(***************************************************************************)
(* The chapter pages parseAdditionalPage is applied to.                    *)
(***************************************************************************)
Marker    == Elem("hr", <<AttrSize1, AttrGray>>, <<>>)
PlainHr   == Elem("hr", <<AttrSize1>>, <<>>)
Para      == Elem("p", <<>>, <<TextNode(<<"x">>)>>)
Heading   == Elem("h1", <<>>, <<TextNode(<<"y">>)>>)
NavBack   == Elem("a", <<Attribute("href", <<"p">>)>>, <<TextNode(LabelBack)>>)
NavNext   == Elem("a", <<Attribute("href", <<"n">>)>>,
                  <<Elem("i", <<>>, <<TextNode(LabelNext)>>)>>)
ParaNav   == Elem("p", <<>>, <<NavNext>>)
BareText  == TextNode(<<"t">>)

ChildKinds == {Marker, PlainHr, Para, Heading, NavBack, NavNext, ParaNav, BareText}

RECURSIVE SeqsUpTo(_, _)
\* The sequences over S of length at most n.
SeqsUpTo(S, n) ==
    IF n = 0 THEN {<<>>}
    ELSE LET shorter == SeqsUpTo(S, n - 1)
         IN shorter \cup {Append(q, x) : q \in shorter, x \in S}

Pages == SeqsUpTo(ChildKinds, MaxChildren)

InitPage ==
    /\ doc \in Pages
    /\ w0 \in {<<>>, <<"z", "\n">>}
    /\ w = w0
    /\ passedHrs = 0 /\ content = <<>> /\ perr = NoErr /\ pStep = "start"
    /\ IdleUrl /\ IdleNode /\ IdleIdx /\ IdleRun

\* A call e.parseAdditionalPage(doc).
CallParseAdditionalPage ==
    /\ pStep = "start"
    /\ \E r \in {parseAdditionalPage(doc, w)} :
          /\ passedHrs' = r.passedHrs
          /\ content' = r.content
          /\ perr' = r.err
          /\ w' = r.w
    /\ pStep' = "done"
    /\ UNCHANGED <<doc, w0, urlVars, nodeVars, idxVars, runVars>>

NextPage == CallParseAdditionalPage

SpecPage == InitPage /\ [][NextPage]_vars

(***************************************************************************)
(* getChapters (src/main.go:86-104).                                       *)
(***************************************************************************)
RECURSIVE findUlLiTopLevel(_, _)
\* findUlLi that does not look for list items inside a list item.
findUlLiTopLevel(kids, underUl) ==
    IF kids = <<>> THEN <<>>
    ELSE LET n == kids[1]
             isLi == n.Type = "element" /\ n.Tag = "li" /\ underUl
         IN (IF isLi THEN <<n>>
             ELSE findUlLiTopLevel(n.Kids, underUl \/ (n.Type = "element" /\ n.Tag = "ul")))
            \o findUlLiTopLevel(Tail(kids), underUl)

RECURSIVE findUlLi(_, _)
\* doc.Find("body ul li") below the nodes `kids` of the body: the li elements with
\* an ul ancestor, in document order.
findUlLi(kids, underUl) ==
    IF kids = <<>> THEN <<>>
    ELSE LET n == kids[1]
         IN (IF n.Type = "element" /\ n.Tag = "li" /\ underUl THEN <<n>> ELSE <<>>)
            \o findUlLi(n.Kids, underUl \/ (n.Type = "element" /\ n.Tag = "ul"))
            \o findUlLi(Tail(kids), underUl)

RECURSIVE findLinks(_)
\* s.Find("a[href]") below the nodes `kids`: the a elements with an href attribute,
\* in document order.
findLinks(kids) ==
    IF kids = <<>> THEN <<>>
    ELSE LET n == kids[1]
         IN (IF n.Type = "element" /\ n.Tag = "a"
                /\ \E i \in 1..Len(n.Attr) : n.Attr[i].Key = "href"
             THEN <<n>> ELSE <<>>)
            \o findLinks(n.Kids) \o findLinks(Tail(kids))

\* s.Attr(key) of a non-empty selection: the attribute of its first node.
attrOf(n, key) ==
    LET at == {i \in 1..Len(n.Attr) : n.Attr[i].Key = key}
    IN n.Attr[CHOOSE i \in at : \A j \in at : i <= j].Val

Panic == "panic"

\* The Each of getChapters over the list items found, and its end
\* (src/main.go:88-103).
chaptersOf(baseUrl, lis) ==
    IF \E i \in 1..Len(lis) : findLinks(lis[i].Kids) = <<>>
    THEN Result(<<>>, Panic)          \* panic("missing link in chapter index")
    ELSE IF Len(lis) = 0 THEN Result(<<>>, ErrNoChaptersFound)
    ELSE Result([i \in 1..Len(lis) |->
                    baseUrl \o <<"/">> \o attrOf(findLinks(lis[i].Kids)[1], "href")],
                NoErr)

getChapters(baseUrl, body) == chaptersOf(baseUrl, findUlLi(body, FALSE))

(***************************************************************************)
(* The index pages getChapters is applied to.                              *)
(***************************************************************************)
Link(h)  == Elem("a", <<Attribute("href", h)>>, <<TextNode(<<"c">>)>>)
Anchor   == Elem("a", <<Attribute("name", <<"x">>)>>, <<>>)
Href1    == <<"1">>
Href2    == <<"2">>
LiPlain  == Elem("li", <<>>, <<Link(Href1)>>)
LiEmptyHref == Elem("li", <<>>, <<Link(<<>>)>>)
LiSplit  == Elem("li", <<>>, <<Anchor, TextNode(<<"c">>),
                               Elem("span", <<>>, <<Link(Href2)>>)>>)
LiTwo    == Elem("li", <<>>, <<Link(Href2), Link(Href1)>>)
LiNested == Elem("li", <<>>, <<Link(Href1), Elem("ul", <<>>, <<LiSplit>>)>>)
LiOl     == Elem("li", <<>>, <<Elem("ol", <<>>, <<LiTwo>>), Link(Href1)>>)
LiNoLink == Elem("li", <<>>, <<Anchor, TextNode(<<"c">>)>>)

LiKinds == {LiPlain, LiEmptyHref, LiSplit, LiTwo, LiNested, LiOl, LiNoLink}

IndexBodies ==
    UNION { { <<Elem("ul", <<>>, ls)>>,
              <<Elem("ol", <<>>, ls)>>,
              <<Elem("div", <<>>, <<Elem("ul", <<>>, ls)>>)>>,
              <<Elem("p", <<>>, <<Link(Href2)>>), Elem("ul", <<>>, ls)>>,
              <<Elem("ul", <<>>, ls), Elem("ul", <<>>, <<LiTwo>>)>>,
              ls } : ls \in SeqsUpTo(LiKinds, MaxItems) }

BaseA == SchemeHttps \o BasePrefix \o <<"a", "/", "b">>

InitIdx ==
    /\ idoc \in {[baseUrl |-> BaseA, body |-> bd] : bd \in IndexBodies}
    /\ chapRes = NoResult /\ iStep = "start"
    /\ IdleUrl /\ IdleNode /\ IdlePage /\ IdleRun

\* A call getChapters(baseUrl, doc).
CallGetChapters ==
    /\ iStep = "start"
    /\ chapRes' = getChapters(idoc.baseUrl, idoc.body)
    /\ iStep' = "done"
    /\ UNCHANGED <<idoc, urlVars, nodeVars, pageVars, runVars>>

NextIdx == CallGetChapters

SpecIdx == InitIdx /\ [][NextIdx]_vars

(***************************************************************************)
(* The Extractor and main (src/main.go:106-168, 312-408).                  *)
(***************************************************************************)
Unknown == <<"U","n","k","n","o","w","n">>

RECURSIVE findMetas(_)
\* doc.Find("head meta") (src/main.go:113) below the nodes `kids` of head: the meta
\* elements at any depth, in document order.
findMetas(kids) ==
    IF kids = <<>> THEN <<>>
    ELSE (IF kids[1].Type = "element" /\ kids[1].Tag = "meta" THEN <<kids[1]>> ELSE <<>>)
         \o findMetas(kids[1].Kids) \o findMetas(Tail(kids))

\* metas.Filter("[name=...]").AttrOr("content", "Unknown") (src/main.go:115-117):
\* the content attribute of the first of the metas with that name.
metaContent(metas, name) ==
    LET at == {i \in 1..Len(metas) : hasAttr(metas[i], Attribute("name", name))}
    IN IF at = {} THEN Unknown
       ELSE LET m == metas[CHOOSE i \in at : \A j \in at : i <= j]
            IN IF \E k \in 1..Len(m.Attr) : m.Attr[k].Key = "content"
               THEN attrOf(m, "content") ELSE Unknown

\* getMetaInfo (src/main.go:112-119) on the child nodes of the document's head.
getMetaInfo(head) ==
    [Author |-> metaContent(findMetas(head), <<"a","u","t","h","o","r">>),
     Title  |-> metaContent(findMetas(head), <<"t","i","t","l","e">>),
     Year   |-> metaContent(findMetas(head), <<"f","i","r","s","t","p","u","b">>)]

\* MetaInfo.ToTitle (src/main.go:121-123).
ToTitle(m) == m.Author \o <<" ", "-", "-", " ">> \o m.Title \o <<",", " ">> \o m.Year


\* NewExtractor behind getBaseUrl (src/main.go:134-140).
extractorOf(r) ==
    IF r.err # NoErr THEN Result(<<>>, r.err)
    ELSE Result([BaseUrl |-> r.val, Meta |-> [Author |-> <<>>, Title |-> <<>>, Year |-> <<>>], ChapterUrls |-> <<>>], NoErr)

\* NewExtractor (src/main.go:132-141): the Extractor (nil on an error) and the error.
NewExtractor(raw) == extractorOf(getBaseUrl(raw))

\* What http.Get and the read of the body yield: an error of the transport, or a
\* response with its status, whose body parses into a document or fails to be read.
HttpFailure == [geterr |-> TRUE, status |-> 0, readerr |-> FALSE, head |-> <<>>,
                body |-> <<>>]
HttpUnread(st) == [geterr |-> FALSE, status |-> st, readerr |-> TRUE, head |-> <<>>,
                   body |-> <<>>]
HttpDoc(st, hd, bd) == [geterr |-> FALSE, status |-> st, readerr |-> FALSE, head |-> hd,
                        body |-> bd]

\* The end of FetchAndProcessIndex (src/main.go:163-167), given the Extractor with
\* its Meta set and what getChapters returned.
indexedBy(withMeta, ch) ==
    IF ch.err # NoErr THEN Result(withMeta, ch.err)
    ELSE Result([withMeta EXCEPT !.ChapterUrls = ch.val], NoErr)

\* FetchAndProcessIndex (src/main.go:143-168) on the response `resp` to the GET of
\* e.BaseUrl: the Extractor afterwards and the error.
FetchAndProcessIndex(ext, resp) ==
    IF resp.geterr THEN Result(ext, ErrTransport)
    ELSE IF resp.status = 404 THEN Result(ext, ErrBookNotFound)
    ELSE IF resp.readerr THEN Result(ext, ErrRead)
    ELSE indexedBy([ext EXCEPT !.Meta = getMetaInfo(resp.head)],
                   getChapters(ext.BaseUrl, resp.body))

\* path.Base (src/main.go:330): the path without its trailing slashes, ...
stripTrailingSlashes(path) ==
    IF \A i \in 1..Len(path) : path[i] = "/" THEN <<>>
    ELSE SubSeq(path, 1, CHOOSE i \in 1..Len(path) :
                    path[i] # "/" /\ \A j \in (i + 1)..Len(path) : path[j] = "/")

\* ... and what stands behind its last slash.
afterLastSlash(path) ==
    IF \A i \in 1..Len(path) : path[i] # "/" THEN path
    ELSE SubSeq(path, 1 + (CHOOSE i \in 1..Len(path) :
                    path[i] = "/" /\ \A j \in (i + 1)..Len(path) : path[j] # "/"), Len(path))

pathBase(path) ==
    IF path = <<>> THEN <<".">>
    ELSE IF afterLastSlash(stripTrailingSlashes(path)) = <<>> THEN <<"/">>
    ELSE afterLastSlash(stripTrailingSlashes(path))

TitlePage == <<"t","i","t","l","e","p","a","g","e",".","h","t","m","l">>
Rule      == <<"\n">> \o [i \in 1..16 |-> "-"] \o <<"\n">>

\* isTitlePage as a test of the URL's end.
isTitlePageBySuffix(chapterUrl) ==
    Len(chapterUrl) >= Len(TitlePage)
    /\ SubSeq(chapterUrl, Len(chapterUrl) - Len(TitlePage) + 1, Len(chapterUrl)) = TitlePage

\* path.Base(chapterUrl) == "titlepage.html" (src/main.go:330).
isTitlePage(chapterUrl) == pathBase(chapterUrl) = TitlePage

\* The end of FetchAndProcessChapter (src/main.go:326-333), given what
\* parseAdditionalPage returned.  Fprintln writes its argument and a newline.
afterParse(chapterUrl, r) ==
    IF r.err # NoErr THEN Result(r.w, r.err)
    ELSE IF isTitlePage(chapterUrl) THEN Result(r.w \o Rule \o <<"\n">>, NoErr)
    ELSE Result(r.w, NoErr)

\* FetchAndProcessChapter (src/main.go:312-334) on the response `resp` to the GET of
\* chapterUrl, with a writer holding `buf`: the writer afterwards and the error.
FetchAndProcessChapter(chapterUrl, resp, buf) ==
    IF resp.geterr THEN Result(buf, ErrTransport)
    ELSE IF resp.readerr THEN Result(buf, ErrRead)
    ELSE afterParse(chapterUrl, parseAdditionalPage(resp.body, buf))

\* printErr that returns to its caller.
printErrReturning(cont) == [pc |-> cont, exitCode |-> -1]

\* printErr (src/main.go:61-64): os.Exit(1), whatever the caller would do next.
printErr(cont) == [pc |-> "exited", exitCode |-> 1]

\* Where main stands after a call that returned `er`: `cont` if it is nil.
afterCall(er, cont) == IF er # NoErr THEN printErr(cont) ELSE [pc |-> cont, exitCode |-> -1]

(***************************************************************************)
(* The inputs of a run: the URL argument, the index page and the chapter   *)
(* pages the site answers with.                                            *)
(***************************************************************************)
RunUrls ==
    { SchemeHttps \o <<":", "/", "/">> \o HostWww \o <<"/","a","/","b","/","c">>,
      <<"f","t","p",":","/","/">> \o HostBare \o <<"/","a","/","b">>,
      SchemeHttp \o <<":", "/", "/">> \o HostBare \o <<"/","a","\n">> }

RunHrefs == { TitlePage, <<"c">>, <<"x">> \o TitlePage, TitlePage \o <<"/">> }

RunLis == {Elem("li", <<>>, <<Link(h)>>) : h \in RunHrefs} \cup {LiNoLink}

Meta(name, val) == Elem("meta", <<Attribute("name", name), Attribute("content", val)>>, <<>>)
RunHeads ==
    { <<>>,
      <<Meta(<<"a","u","t","h","o","r">>, <<"G">>), Meta(<<"t","i","t","l","e">>, <<"F">>),
        Meta(<<"a","u","t","h","o","r">>, <<"H">>)>>,
      <<Elem("template", <<>>, <<Meta(<<"a","u","t","h","o","r">>, <<"X">>)>>),
        Meta(<<"a","u","t","h","o","r">>, <<"Y">>)>> }

IndexResponses ==
    {HttpFailure, HttpUnread(200), HttpDoc(404, <<>>, <<>>)}
    \cup {HttpDoc(200, hd, <<Elem("ul", <<>>, ls)>>) :
             hd \in RunHeads, ls \in SeqsUpTo(RunLis, MaxChapters)}

ChapterResponses ==
    {HttpFailure, HttpUnread(200)}
    \cup {HttpDoc(200, <<>>, bd) :
             bd \in { <<Marker, Para, Marker>>,
                      <<Para, Marker, Heading, NavNext>>,
                      <<Marker, Marker, Marker>>,
                      <<Marker, Marker, Marker, Para>> }}

Init ==
    /\ pc = "start" /\ e = <<>> /\ b = <<>> /\ chapIdx = 0 /\ err = NoErr
    /\ file = <<>> /\ writeCalls = 0 /\ exitCode = -1
    /\ fetchLog = <<>> /\ lastChap = <<>> /\ firstErr = -1
    /\ IdleUrl /\ IdleNode /\ IdlePage /\ IdleIdx

NoteErr(er) == IF er # NoErr /\ firstErr = -1 THEN Len(fetchLog') ELSE firstErr

\* main, lines 381-385: e, err := NewExtractor(url, &b).
MainNewExtractor ==
    /\ pc = "start"
    /\ \E raw \in RunUrls :
       \E r \in {NewExtractor(raw)} :
       \E next \in {afterCall(r.err, "index")} :
             /\ e' = r.val
             /\ err' = r.err
             /\ pc' = next.pc
             /\ exitCode' = next.exitCode
             /\ fetchLog' = fetchLog
             /\ firstErr' = NoteErr(r.err)
    /\ UNCHANGED <<b, chapIdx, file, writeCalls, lastChap>>
    /\ UNCHANGED <<urlVars, nodeVars, pageVars, idxVars>>

\* main, lines 386-391: err = e.FetchAndProcessIndex().  A panic of getChapters
\* ends the process with the runtime's exit code 2.
MainFetchAndProcessIndex ==
    /\ pc = "index"
    /\ e # <<>>
    /\ \E resp \in IndexResponses :
       \E r \in {FetchAndProcessIndex(e, resp)} :
       \E next \in {afterCall(r.err, "loop")} :
             /\ fetchLog' = Append(fetchLog, e.BaseUrl)
             /\ e' = r.val
             /\ IF r.err = Panic
                THEN /\ pc' = "panicked" /\ exitCode' = 2
                     /\ UNCHANGED <<err, firstErr>>
                ELSE /\ err' = r.err
                     /\ pc' = next.pc
                     /\ exitCode' = next.exitCode
                     /\ firstErr' = NoteErr(r.err)
    /\ UNCHANGED <<b, chapIdx, file, writeCalls, lastChap>>
    /\ UNCHANGED <<urlVars, nodeVars, pageVars, idxVars>>

\* main, lines 394-401: one iteration of the loop over e.ChapterUrls.
MainFetchAndProcessChapter ==
    /\ pc = "loop"
    /\ chapIdx < Len(e.ChapterUrls)
    /\ \E resp \in ChapterResponses :
       \E chapter \in {e.ChapterUrls[chapIdx + 1]} :
       \E r \in {FetchAndProcessChapter(chapter, resp, b)} :
       \E next \in {afterCall(r.err, "loop")} :
             /\ fetchLog' = Append(fetchLog, chapter)
             /\ lastChap' = [url |-> chapter, resp |-> resp, b0 |-> b, err |-> r.err]
             /\ b' = r.val
             /\ err' = r.err
             /\ chapIdx' = chapIdx + 1
             /\ pc' = next.pc
             /\ exitCode' = next.exitCode
             /\ firstErr' = NoteErr(r.err)
    /\ UNCHANGED <<e, file, writeCalls>>
    /\ UNCHANGED <<urlVars, nodeVars, pageVars, idxVars>>

\* main, lines 403-408: os.WriteFile(filename, b.Bytes(), 0666), its error dropped,
\* and the return from main.
MainWriteFile ==
    /\ pc = "loop"
    /\ chapIdx = Len(e.ChapterUrls)
    /\ writeCalls' = writeCalls + 1
    /\ \E ok \in BOOLEAN : file' = [ok |-> ok, data |-> IF ok THEN b ELSE <<>>]
    /\ pc' = "done"
    /\ exitCode' = 0
    /\ UNCHANGED <<e, b, chapIdx, err, fetchLog, lastChap, firstErr>>
    /\ UNCHANGED <<urlVars, nodeVars, pageVars, idxVars>>

Next ==
    \/ MainNewExtractor
    \/ MainFetchAndProcessIndex
    \/ MainFetchAndProcessChapter
    \/ MainWriteFile

Spec == Init /\ [][Next]_vars

----------------------------------------------------------------------------
NoNewline(s) == \A i \in 1..Len(s) : s[i] # "\n"
NoSpaceRun(s) == \A i \in 1..(Len(s) - 1) : ~(s[i] = " " /\ s[i + 1] = " ")
Letters(s) == SelectSeq(s, LAMBDA c : c # " " /\ c # "\n")
\* The position of the first and of the last character that is no newline; 0 if none.
FirstKept(s) ==
    IF NoNewline(s) /\ s # <<>> THEN 1
    ELSE IF \A i \in 1..Len(s) : s[i] = "\n" THEN 0
    ELSE CHOOSE i \in 1..Len(s) : s[i] # "\n" /\ \A j \in 1..(i - 1) : s[j] = "\n"
LastKept(s) ==
    IF \A i \in 1..Len(s) : s[i] = "\n" THEN 0
    ELSE CHOOSE i \in 1..Len(s) : s[i] # "\n" /\ \A j \in (i + 1)..Len(s) : s[j] = "\n"

\* C10: a converted text node holds no newline and no two adjacent spaces, keeps
\* its other characters in order and its leading and trailing space (no trimming),
\* is unchanged when it had no newline and no run of spaces, and converting the
\* result again returns it unchanged; "a  b   c" yields "a b c".
TextConversionNormalises ==
    (nodeStep \in {"done", "again"} /\ node.Type = "text") =>
        /\ NoNewline(nodeOut)
        /\ NoSpaceRun(nodeOut)
        /\ Letters(nodeOut) = Letters(node.Data)
        /\ (nodeOut # <<>>) <=> (FirstKept(node.Data) # 0)
        /\ nodeOut # <<>> =>
              /\ (nodeOut[1] = " ") <=> (node.Data[FirstKept(node.Data)] = " ")
              /\ (nodeOut[Len(nodeOut)] = " ") <=> (node.Data[LastKept(node.Data)] = " ")
        /\ (NoNewline(node.Data) /\ NoSpaceRun(node.Data)) => nodeOut = node.Data
        /\ node.Data = TextABC => nodeOut = <<"a", " ", "b", " ", "c">>
        /\ nodeStep = "again" => nodeOut = node.Data

\* C10's case: spaces separated only by a newline were collapsed into one.
TextConversionWitness ==
    /\ nodeStep = "done"
    /\ node.Data = <<" ", "\n", " ", "a">>
    /\ nodeOut = <<" ", "a">>

\* C9: an element carrying the "spaced" class yields its tag's transform with one
\* space between every two adjacent characters: n characters become 2n-1, the
\* empty string stays empty, nothing is added in front or behind.
SpacedInterleavesFormatted ==
    (nodeStep = "done" /\ node.Type = "element" /\ hasClass(node, ClassSpaced)) =>
        LET t == tagTransform(node, IF WalksChildren(node) THEN processChildren(node)
                                    ELSE <<>>)
        IN /\ Len(nodeOut) = (IF t = <<>> THEN 0 ELSE 2 * Len(t) - 1)
           /\ \A i \in 1..Len(t) : nodeOut[2 * i - 1] = t[i]
           /\ \A i \in 1..(Len(t) - 1) : nodeOut[2 * i] = " "
           /\ (node.Tag = "span" /\ node.Kids = <<TextNode(<<"a", "b">>)>>)
                 => nodeOut = <<"a", " ", "b">>
           /\ (node.Tag = "i" /\ node.Kids = <<TextNode(<<"a", "b">>)>>)
                 => nodeOut = <<"_", " ", "a", " ", "b", " ", "_">>

\* C9's case: a spaced paragraph, whose added newlines are spaced too.
SpacedWitness ==
    /\ nodeStep = "done"
    /\ node = Elem("p", <<Attribute("class", ClassCenterbig \o <<" ">> \o ClassSpaced)>>,
                   <<TextNode(<<"a", "b">>)>>)
    /\ nodeOut = <<"#", " ", "#", " ", "#", " ", "#", " ", " ", " ", "a", " ", "b",
                   " ", "\n", " ", "\n">>

----------------------------------------------------------------------------
\* What a call wrote: the writer's contents behind those it held at the call.
Written == SubSeq(w, Len(w0) + 1, Len(w))

MarkerElement(n) ==
    /\ n.Type = "element" /\ n.Tag = "hr"
    /\ \E i \in 1..Len(n.Attr) : n.Attr[i].Key = "size" /\ n.Attr[i].Val = <<"1">>
    /\ \E i \in 1..Len(n.Attr) :
          n.Attr[i].Key = "color" /\ n.Attr[i].Val = <<"#","8","0","8","0","8","0">>

NavigationLink(n) ==
    n.Type = "element" /\ n.Tag = "a" /\ nodeText(n) \in {LabelBack, LabelNext}

MarkersBefore(kids, i) == Cardinality({j \in 1..(i - 1) : MarkerElement(kids[j])})
MarkerCount(kids) == MarkersBefore(kids, Len(kids) + 1)

\* C1 as claimed: a page with three or more markers among the body's children
\* fails with ErrParsingPage, wherever the third marker stands.
ThreeMarkersAlwaysFail ==
    (pStep = "done" /\ MarkerCount(doc) >= 3) => perr = ErrParsingPage

\* The children seen while exactly one marker has been passed, markers left out.
BetweenMarkers(kids) ==
    SelectSeq([i \in 1..Len(kids) |-> [n |-> kids[i], before |-> MarkersBefore(kids, i)]],
              LAMBDA x : x.before = 1 /\ ~MarkerElement(x.n))

\* C2 as claimed: the children converted are exactly the non-marker children
\* between the first and the second marker.
ConvertsAllBetweenMarkers ==
    pStep = "done" =>
        LET between == BetweenMarkers(doc)
        IN /\ (IF perr = NoErr THEN content ELSE <<>>)
                = [i \in 1..Len(between) |-> between[i].n]
           /\ Written = Concat([i \in 1..Len(between) |-> process(between[i].n)])

\* C2 as amended: when no ErrParsingPage is raised, the nodes converted are exactly
\* the element children between the first and the second marker that are neither
\* markers nor navigation links, in document order, and their conversions are what
\* is written; when it is raised nothing is written.  Nothing before the first or
\* after the second marker, and no marker, is ever converted.
ConvertsElementsBetweenMarkers ==
    pStep = "done" =>
        LET between == BetweenMarkers(doc)
            kept == SelectSeq(between,
                              LAMBDA x : x.n.Type = "element" /\ ~NavigationLink(x.n))
        IN /\ perr = NoErr =>
                /\ content = [i \in 1..Len(kept) |-> kept[i].n]
                /\ Written = Concat([i \in 1..Len(kept) |-> process(kept[i].n)])
           /\ perr # NoErr => (Written = <<>> /\ w = w0)
           /\ \A i \in 1..Len(content) :
                 /\ ~MarkerElement(content[i])
                 /\ \E j \in 1..Len(doc) : doc[j] = content[i] /\ MarkersBefore(doc, j) = 1

\* C2's case: a paragraph before the first marker and a heading between the two.
ConvertsBetweenWitness ==
    /\ pStep = "done"
    /\ doc = <<Para, Marker, Heading, Marker>>
    /\ content = <<Heading>>
    /\ w = w0 \o <<"#", " ", "y", "\n">>

\* Whether sub occurs in s.
Contains(s, sub) ==
    \E i \in 1..(Len(s) - Len(sub) + 1) : SubSeq(s, i, i + Len(sub) - 1) = sub

RECURSIVE HoldsNavigationLink(_)
\* Whether n is a navigation link or holds one at any depth.
HoldsNavigationLink(n) ==
    NavigationLink(n) \/ \E i \in 1..Len(n.Kids) : HoldsNavigationLink(n.Kids[i])

\* C3 as claimed: a navigation link in the retained region, at any nesting depth,
\* leaves no label text in the Markdown written.
NoLabelAtAnyDepth ==
    (/\ pStep = "done" /\ perr = NoErr
     /\ \E i \in 1..Len(doc) : MarkersBefore(doc, i) = 1 /\ HoldsNavigationLink(doc[i]))
    => (~Contains(Written, LabelBack) /\ ~Contains(Written, LabelNext))

WithoutNavigationLinks(kids) == SelectSeq(kids, LAMBDA n : ~NavigationLink(n))

\* C3 as amended: a navigation link that is a direct child of the body is
\* discarded in every region: the error returned and the Markdown written are
\* those of the page without these links; a navigation link nested in a retained
\* element is converted like any other link, its label text written.
DirectNavLinksDiscarded ==
    pStep = "done" =>
        LET r == parseAdditionalPage(WithoutNavigationLinks(doc), w0)
        IN /\ perr = r.err
           /\ w = r.w
           /\ \A i \in 1..Len(content) : ~NavigationLink(content[i])
           /\ (perr = NoErr /\ \E i \in 1..Len(content) : content[i] = ParaNav)
                 => Contains(Written, LabelNext)

\* C3's case: both navigation links between the markers, beside a paragraph.
DirectNavLinksWitness ==
    /\ pStep = "done"
    /\ doc = <<Marker, NavBack, Para, NavNext>>
    /\ Written = <<"x", "\n", "\n">>

----------------------------------------------------------------------------
RECURSIVE ListItems(_, _)
\* The li elements below `kids` that stand inside an ul, in document order.
ListItems(kids, inUl) ==
    Concat([i \in 1..Len(kids) |->
        (IF kids[i].Tag = "li" /\ inUl THEN <<kids[i]>> ELSE <<>>)
        \o ListItems(kids[i].Kids, inUl \/ kids[i].Tag = "ul")])

RECURSIVE Hrefs(_)
\* The href values of the links below n, in document order.
Hrefs(n) ==
    Concat([i \in 1..Len(n.Kids) |->
        (IF n.Kids[i].Tag = "a" /\ \E k \in 1..Len(n.Kids[i].Attr) :
                                       n.Kids[i].Attr[k].Key = "href"
         THEN <<(CHOOSE a \in {n.Kids[i].Attr[k] : k \in 1..Len(n.Kids[i].Attr)} :
                    a.Key = "href").Val>>
         ELSE <<>>)
        \o Hrefs(n.Kids[i])])

\* C5: with no list item getChapters fails with ErrNoChaptersFound; with N >= 1
\* list items (li elements inside an ul of the body, nested ones counted) that each
\* hold a link with an href it returns N URLs, the i-th being baseURL + "/" + the
\* first href of the i-th list item.
OneUrlPerListItem ==
    iStep = "done" =>
        LET items == ListItems(idoc.body, FALSE)
        IN /\ items = <<>> => chapRes = Result(<<>>, ErrNoChaptersFound)
           /\ (items # <<>> /\ \A i \in 1..Len(items) : Hrefs(items[i]) # <<>>) =>
                 /\ chapRes.err = NoErr
                 /\ Len(chapRes.val) = Len(items)
                 /\ \A i \in 1..Len(items) :
                       chapRes.val[i] = idoc.baseUrl \o <<"/">> \o Hrefs(items[i])[1]

\* C5's case: a list item with two links and one with a nested list item.
OneUrlPerListItemWitness ==
    /\ iStep = "done"
    /\ idoc.body = <<Elem("ul", <<>>, <<LiTwo, LiNested>>)>>
    /\ chapRes = Result(<<BaseA \o <<"/", "2">>, BaseA \o <<"/", "1">>,
                          BaseA \o <<"/", "2">>>>, NoErr)

----------------------------------------------------------------------------
\* The raw URL's parts as url.Parse sees them, its path's segments counted by the
\* slashes left after trimming.
Parsed == UrlParse(rawurl)
Segments == Split(Trim(Parsed.Path, "/"), "/")
CountSlashes(s) == Cardinality({i \in 1..Len(s) : s[i] = "/"})
SlashesInside == CountSlashes(Trim(Parsed.Path, "/"))
ProtocolHost == <<":", "/", "/">> \o HostBare

\* C7 as claimed: an accepted URL with segments seg0/seg1 and anything behind them
\* yields s://projekt-gutenberg.org/seg0/seg1, as the two-segment URL does, and
\* getBaseUrl of that result is the result.
BaseUrlCanonical ==
    /\ (urlStep = "called" /\ urlRes.err = NoErr) =>
          /\ urlRes.val = Parsed.Scheme \o ProtocolHost
                          \o <<"/">> \o Segments[1] \o <<"/">> \o Segments[2]
          /\ getBaseUrl(Parsed.Scheme \o <<":", "/", "/">> \o Parsed.Host
                        \o <<"/">> \o Segments[1] \o <<"/">> \o Segments[2]) = urlRes
    /\ urlStep = "again" => urlRes = Result(rawurl, NoErr)

\* C8 as claimed: an unparsable URL, a scheme other than http and https, a host
\* other than the two accepted ones, and fewer than two path segments each make
\* getBaseUrl fail with ErrInvalidURL and no base URL.
EveryRejectionIsInvalidURL ==
    (/\ urlStep = "called"
     /\ \/ ~Parsed.ok
        \/ Parsed.Scheme \notin {SchemeHttp, SchemeHttps}
        \/ Parsed.Host \notin {HostBare, HostWww}
        \/ SlashesInside < 1)
    => urlRes = Result(<<>>, ErrInvalidURL)

\* C8 as amended: an unparsable URL makes getBaseUrl fail with url.Parse's own
\* error; a parsed URL whose scheme is not http or https, whose host is not one of
\* the two accepted ones, or with fewer than two path segments left after trimming
\* slashes makes it fail with ErrInvalidURL; no base URL is returned in any of these
\* cases.
RejectionsFail ==
    urlStep = "called" =>
        /\ ~Parsed.ok => urlRes = Result(<<>>, ErrUrlParse)
        /\ (/\ Parsed.ok
            /\ \/ Parsed.Scheme \notin {SchemeHttp, SchemeHttps}
               \/ Parsed.Host \notin {HostBare, HostWww}
               \/ SlashesInside < 1)
           => urlRes = Result(<<>>, ErrInvalidURL)

\* C8's case: a URL with a control character, which url.Parse refuses.
RejectionsFailWitness ==
    /\ urlStep = "called"
    /\ rawurl = SchemeHttp \o ProtocolHost \o <<"/", "a", "/", "b">> \o <<"\n">>
    /\ urlRes = Result(<<>>, ErrUrlParse)

----------------------------------------------------------------------------
\* Whether the URL's last path segment is titlepage.html: the name stands behind a
\* slash and only slashes follow it.
EndsInTitlePage(url) ==
    \E i \in 1..Len(url) :
        /\ i + Len(TitlePage) <= Len(url)
        /\ SubSeq(url, i, i + Len(TitlePage)) = <<"/">> \o TitlePage
        /\ \A j \in (i + Len(TitlePage) + 1)..Len(url) : url[j] = "/"

\* The writer after the last chapter's conversion alone.
LastConverted == parseAdditionalPage(lastChap.resp.body, lastChap.b0).w

\* C6 as claimed: the separator appended behind a title page's content is exactly
\* "\n----------------\n", and no other chapter gets one.
SeparatorIsRuleOnly ==
    (lastChap # <<>> /\ lastChap.err = NoErr) =>
        b = LastConverted \o (IF EndsInTitlePage(lastChap.url) THEN Rule ELSE <<>>)

\* C6 as amended: behind the converted content of a chapter processed without
\* error, FetchAndProcessChapter appends "\n----------------\n" and one more
\* newline if and only if the URL's final path segment is titlepage.html; a chapter
\* that fails gets nothing appended.
SeparatorAfterTitlePage ==
    lastChap # <<>> =>
        /\ lastChap.err = NoErr =>
              b = LastConverted
                  \o (IF EndsInTitlePage(lastChap.url) THEN Rule \o <<"\n">> ELSE <<>>)
        /\ lastChap.err # NoErr => b = lastChap.b0

\* C6's case: the title page as the first chapter, processed without error.
SeparatorWitness ==
    /\ lastChap # <<>>
    /\ lastChap.url = e.BaseUrl \o <<"/">> \o TitlePage
    /\ lastChap.err = NoErr
    /\ lastChap.resp.body = <<Marker, Para, Marker>>
    /\ b = <<"x", "\n", "\n">> \o Rule \o <<"\n">>

\* C4: os.WriteFile is called at most once, and only when every chapter of
\* e.ChapterUrls has been fetched and processed without error, in list order; the
\* first error of NewExtractor, FetchAndProcessIndex or FetchAndProcessChapter ends
\* the run with exit code 1, with no fetch after it and no file written.
FileOnlyAfterAllChapters ==
    /\ writeCalls <= 1
    /\ file # <<>> => writeCalls = 1
    /\ writeCalls = 1 =>
          /\ pc = "done" /\ exitCode = 0
          /\ firstErr = -1 /\ err = NoErr
          /\ chapIdx = Len(e.ChapterUrls)
          /\ fetchLog = <<e.BaseUrl>> \o e.ChapterUrls
    /\ e = <<>> => fetchLog = <<>>
    /\ e # <<>> =>
          fetchLog = SubSeq(<<e.BaseUrl>> \o e.ChapterUrls, 1, Len(fetchLog))
    /\ (err # NoErr \/ firstErr # -1) =>
          /\ pc = "exited" /\ exitCode = 1
          /\ writeCalls = 0 /\ file = <<>>
          /\ Len(fetchLog) = firstErr
    /\ exitCode = 1 => (writeCalls = 0 /\ file = <<>>)

\* C4's case: the first of two chapters failed; the run ended there.
FileOnlyWitness ==
    /\ pc = "exited" /\ exitCode = 1
    /\ err = ErrParsingPage
    /\ Len(e.ChapterUrls) = 2
    /\ Len(fetchLog) = 2
    /\ writeCalls = 0

====
